---- MODULE Spec2Model ----
(***************************************************************************)
(* Model of the search/replace patch engine of sweepai:                    *)
(*   - sweepai/utils/diff.py: match_string, lstrip_max,                    *)
(*     get_snippet_with_padding, sliding_window_replacement,               *)
(*     generate_new_file_from_patch                                        *)
(*   - sweepai/core/sweep_bot.py: SweepBot.modify_file and                 *)
(*     SweepBot.handle_modify_file (the chunk-size backoff loop)           *)
(*                                                                         *)
(* A text line is a sequence of one-character strings, so that strip(),    *)
(* lstrip() and the substring test are computed character by character.    *)
(* Indices are 0-based as in the source; Python's None is "None" for a     *)
(* status and -1 for replace_index (no return path of the source yields a  *)
(* negative replace_index).  A search_context_before of None is <<>>: the  *)
(* source only tests its truthiness.                                       *)
(***************************************************************************)
EXTENDS Integers, Sequences, FiniteSets, TLC

VARIABLES
    \* ---- one call of sliding_window_replacement (diff.py) ----
    ppc,                    \* "input" | "done"
    old_file_lines,         \* the argument `original`
    search,                 \* the argument `search`
    replace,                \* the argument `replace`
    search_context_before,  \* the argument `search_context_before`
    swr,                    \* what the call did: returned record or raised
    \* ---- one call of SweepBot.handle_modify_file (sweep_bot.py) ----
    pc,                     \* position in handle_modify_file
    num_lines,              \* len(lines), lines = file_contents.split("\n")
    ends_nl,                \* file_contents ends with "\n" (last line is "")
    size_idx,               \* index into chunk_sizes of the current CHUNK_SIZE
    i,                      \* loop variable of the chunk loop
    new_file_contents,      \* accumulated output, a sequence of text pieces
    attempts,               \* history: the attempts made so far
    update_calls,           \* history: contents passed to repo.update_file
    proposal_requests,      \* history: number of calls of self.modify_file
    ret,                    \* outcome of handle_modify_file
    \* ---- one call of generate_new_file_from_patch (diff.py) ----
    gpc,                    \* position in generate_new_file_from_patch
    old_file_content,       \* the argument `old_file_content`, a text
    matches,                \* the (search, replace) texts found at line 290
    hunk_idx,               \* number of iterations of the loop at line 298 done
    applied,                \* history: the replace_index of each iteration
    result,                 \* what the call returned or raised
    \* ---- one copy_lines reference in generate_new_file (diff.py) ----
    cpc,                    \* "input" | "done"
    copy_start,             \* first number of <copy_lines start-end>
    copy_end,               \* second number of <copy_lines start-end>
    chunk_offset,           \* the argument `chunk_offset`
    replacements,           \* the lines substituted for the reference
    \* ---- one call of format_contents (diff.py) ----
    fpc,                    \* "input" | "done"
    file_contents,          \* the argument `file_contents`, a text
    markdown,               \* the argument `is_markdown`
    formatted,              \* the text returned
    \* ---- one call of match_string (diff.py) ----
    mpc,                    \* "input" | "scan" | "done"
    from_index,             \* the argument `start_index`, -1 for None
    scan_i,                 \* the loop variable `i`
    scan_j,                 \* the loop variable `j`
    scan_count,             \* the local `count`, in hundredths
    matched                 \* index, max_similarity, current_hits

vars == <<ppc, old_file_lines, search, replace, search_context_before, swr,
          pc, num_lines, ends_nl, size_idx, i, new_file_contents, attempts,
          update_calls, proposal_requests, ret,
          gpc, old_file_content, matches, hunk_idx, applied, result,
          cpc, copy_start, copy_end, chunk_offset, replacements,
          fpc, file_contents, markdown, formatted,
          mpc, from_index, scan_i, scan_j, scan_count, matched>>

patchVars == <<ppc, old_file_lines, search, replace, search_context_before, swr>>
orchVars == <<pc, num_lines, ends_nl, size_idx, i, new_file_contents, attempts,
              update_calls, proposal_requests, ret>>
genVars == <<gpc, old_file_content, matches, hunk_idx, applied, result>>
copyVars == <<cpc, copy_start, copy_end, chunk_offset, replacements>>
formatVars == <<fpc, file_contents, markdown, formatted>>
matchVars == <<mpc, from_index, scan_i, scan_j, scan_count, matched>>

----------------------------------------------------------------------------
\* Bounds of the model

MaxOrig == 3
MaxSearch == 3
MaxReplace == 3
MaxLinesOrig == 2
MaxDeep == 5
MaxIndentLines == 2
MaxGenLines == 2
MaxChunkLines == 3
MaxOffset == 3
MaxFormatLines == 7
MaxBlock == 102
MaxGenHunks == 2

----------------------------------------------------------------------------
\* Python string and list primitives

Min(a, b) == IF a < b THEN a ELSE b
Max(a, b) == IF a > b THEN a ELSE b

\* str.isspace() of one character
IsSpace(c) == c \in {" ", "\t"}

\* str.lstrip()
RECURSIVE lstrip(_)
lstrip(s) == IF s = <<>> THEN s
             ELSE IF IsSpace(Head(s)) THEN lstrip(Tail(s)) ELSE s

\* str.rstrip()
RECURSIVE rstrip(_)
rstrip(s) == IF s = <<>> THEN s
             ELSE IF IsSpace(s[Len(s)]) THEN rstrip(SubSeq(s, 1, Len(s) - 1)) ELSE s

\* str.strip()
strip(s) == rstrip(lstrip(s))

\* seq[lo:hi] with Python's treatment of negative and out-of-range bounds
PySlice(s, lo, hi) ==
    LET n == Len(s)
        l == IF lo < 0 THEN Max(lo + n, 0) ELSE Min(lo, n)
        h == IF hi < 0 THEN Max(hi + n, 0) ELSE Min(hi, n)
    IN SubSeq(s, l + 1, h)

\* `sub in s` for strings
Contains(s, sub) ==
    \E k \in 0..(Len(s) - Len(sub)) : SubSeq(s, k + 1, k + Len(sub)) = sub

\* ' ' * n
Spaces(n) == [k \in 1..n |-> " "]

\* the elision marker
Dots == <<".", ".", ".">>

\* len(s) - len(s.lstrip())
LeadingWs(s) == Len(s) - Len(lstrip(s))

SeqsUpTo(S, n) == UNION {[1..k -> S] : k \in 0..n}

----------------------------------------------------------------------------
\* sweepai/utils/diff.py

NOT_FOUND == "NOT_FOUND"
IDENTICAL_LINES == "IDENTICAL_LINES"
MULTIPLE_HITS == "MULTIPLE_HITS"

\* window_count with the range test off by one: the last line of the original
\* is never compared
RECURSIVE window_count_short(_, _, _, _, _)
window_count_short(original, search_lines, start_index, start, j) ==
    IF j >= Len(search_lines) THEN 0
    ELSE (IF start + j < Len(original) - 1
             /\ strip(search_lines[j + 1]) = strip(original[start + j + 1])
          THEN 100 + (IF start_index # -1
                         /\ search_lines[j + 1] = original[start + j + 1]
                      THEN 1 ELSE 0)
          ELSE 0)
         + window_count_short(original, search_lines, start_index, start, j + 1)

\* The inner loop of match_string (lines 169-176) for the window starting at
\* index start: scores are kept in hundredths, so `count += 1` adds 100 and
\* `count += 0.01` adds 1.  start_index = -1 stands for start_index=None.
RECURSIVE window_count(_, _, _, _, _)
window_count(original, search_lines, start_index, start, j) ==
    IF j >= Len(search_lines) THEN 0
    ELSE (IF start + j < Len(original)
             /\ strip(search_lines[j + 1]) = strip(original[start + j + 1])
          THEN 100 + (IF start_index # -1
                         /\ search_lines[j + 1] = original[start + j + 1]
                      THEN 1 ELSE 0)
          ELSE 0)
         + window_count(original, search_lines, start_index, start, j + 1)

\* match_loop with `count >= max_similarity` in place of `count > max_similarity`:
\* an equally good window replaces the best one instead of being counted
RECURSIVE match_loop_last(_, _, _, _, _)
match_loop_last(original, search_lines, start_index, start, acc) ==
    IF start >= Len(original) THEN acc
    ELSE LET count == window_count(original, search_lines, start_index, start, 0)
         IN match_loop_last(original, search_lines, start_index, start + 1,
                IF count >= acc.max_similarity
                THEN [index |-> start, max_similarity |-> count, current_hits |-> 1]
                ELSE acc)

\* The outer loop of match_string (lines 168-182), from index start on.
RECURSIVE match_loop(_, _, _, _, _)
match_loop(original, search_lines, start_index, start, acc) ==
    IF start >= Len(original) THEN acc
    ELSE LET count == window_count(original, search_lines, start_index, start, 0)
         IN match_loop(original, search_lines, start_index, start + 1,
                IF count > acc.max_similarity
                THEN [index |-> start, max_similarity |-> count, current_hits |-> 1]
                ELSE IF count = acc.max_similarity
                THEN [acc EXCEPT !.current_hits = @ + 1]
                ELSE acc)

\* match_string with max_similarity initialised to -1 instead of 0: a window
\* of score 0 becomes the best one
match_string_any_window(original, search_lines, start_index) ==
    match_loop(original, search_lines, start_index,
               IF start_index = -1 THEN 0 ELSE start_index,
               [index |-> -1, max_similarity |-> -1, current_hits |-> 0])

match_string(original, search_lines, start_index) ==
    match_loop(original, search_lines, start_index,
               IF start_index = -1 THEN 0 ELSE start_index,
               [index |-> -1, max_similarity |-> 0, current_hits |-> 0])

RECURSIVE lstrip_count(_, _, _, _)
lstrip_count(s, chars, max_count, count) ==
    IF count < Len(s) /\ s[count + 1] \in chars /\ count < max_count
    THEN lstrip_count(s, chars, max_count, count + 1)
    ELSE count

\* lstrip_max without the cap: every leading character of chars is removed
lstrip_max_uncapped(s, chars, max_count) ==
    SubSeq(s, lstrip_count(s, chars, Len(s), 0) + 1, Len(s))

lstrip_max(s, chars, max_count) ==
    SubSeq(s, lstrip_count(s, chars, max_count, 0) + 1, Len(s))

\* min([len(s) - len(s.lstrip()) for s in search])
min_whitespace(search_lines) ==
    CHOOSE w \in {LeadingWs(search_lines[k]) : k \in 1..Len(search_lines)} :
        \A k \in 1..Len(search_lines) : w <= LeadingWs(search_lines[k])

\* exc = "IndexError" when search[0] or snippet[0] does not exist
get_snippet_with_padding(original, index, search_lines) ==
    LET snippet == PySlice(original, index, index + Len(search_lines))
    IN IF search_lines = <<>>
       THEN [exc |-> "IndexError", snippet |-> snippet, spaces |-> <<>>, strip |-> FALSE]
       ELSE IF LeadingWs(search_lines[1]) = 0
       THEN IF snippet = <<>>
            THEN [exc |-> "IndexError", snippet |-> snippet, spaces |-> <<>>, strip |-> FALSE]
            ELSE [exc |-> "None", snippet |-> snippet,
                  spaces |-> Spaces(LeadingWs(snippet[1])), strip |-> FALSE]
       ELSE [exc |-> "None", snippet |-> snippet,
             spaces |-> Spaces(min_whitespace(search_lines)), strip |-> TRUE]

\* index of the first line whose strip() is '...', or -1 (lines 217-228)
RECURSIVE first_dots(_, _)
first_dots(lines, k) ==
    IF k >= Len(lines) THEN -1
    ELSE IF strip(lines[k + 1]) = Dots THEN k ELSE first_dots(lines, k + 1)

\* canDoDotCheck with the test `line.strip() == '...'`
canDoDotCheck_whole_line(original) ==
    ~ \E k \in 1..Len(original) : strip(original[k]) = Dots

canDoDotCheck(original) ==
    ~ \E k \in 1..Len(original) : Contains(strip(original[k]), Dots)

Returned(original, replace_index, status) ==
    [exc |-> "None", original |-> original, replace_index |-> replace_index,
     status |-> status]

Raised(original, exc) ==
    [exc |-> exc, original |-> original, replace_index |-> -1, status |-> "None"]

\* splice with the tail taken after len(replace) instead of len(search) lines
splice_replace_len(original, index, search_lines, replace_lines) ==
    LET pad == get_snippet_with_padding(original, index, search_lines)
        first_line_spaces == min_whitespace(search_lines)
        modified == IF pad.strip
                    THEN [k \in 1..Len(replace_lines) |->
                            pad.spaces \o lstrip_max(replace_lines[k], {" "}, first_line_spaces)]
                    ELSE [k \in 1..Len(replace_lines) |-> pad.spaces \o replace_lines[k]]
    IN IF pad.exc # "None" THEN Raised(original, pad.exc)
       ELSE Returned(PySlice(original, 0, index) \o modified
                        \o SubSeq(original, index + Len(replace_lines) + 1, Len(original)),
                     index, "None")

\* lines 268-279: reconcile the indentation and splice `replace` in at index
splice(original, index, search_lines, replace_lines) ==
    LET pad == get_snippet_with_padding(original, index, search_lines)
        first_line_spaces == min_whitespace(search_lines)
        modified == IF pad.strip
                    THEN [k \in 1..Len(replace_lines) |->
                            pad.spaces \o lstrip_max(replace_lines[k], {" "}, first_line_spaces)]
                    ELSE [k \in 1..Len(replace_lines) |-> pad.spaces \o replace_lines[k]]
    IN IF pad.exc # "None" THEN Raised(original, pad.exc)
       ELSE Returned(PySlice(original, 0, index) \o modified
                        \o SubSeq(original, index + Len(search_lines) + 1, Len(original)),
                     index, "None")

\* resolve_hits without the test `current_hits == 1` on the context
resolve_hits_any_context(original, search_lines, context) ==
    IF context = <<>>
    THEN [exc |-> "None", success |-> FALSE, index |-> -1]
    ELSE LET mc == match_string(original, context, -1)
             pad == get_snippet_with_padding(original, mc.index, context)
         IN IF pad.exc # "None"
            THEN [exc |-> pad.exc, success |-> FALSE, index |-> -1]
            ELSE [exc |-> "None", success |-> TRUE,
                  index |-> match_string(original,
                                [k \in 1..Len(search_lines) |-> pad.spaces \o search_lines[k]],
                                mc.index + 1).index]

\* lines 250-264: the hunk has several equally good windows
resolve_hits(original, search_lines, context) ==
    IF context = <<>>
    THEN [exc |-> "None", success |-> FALSE, index |-> -1]
    ELSE LET mc == match_string(original, context, -1)
             pad == get_snippet_with_padding(original, mc.index, context)
         IN IF pad.exc # "None"
            THEN [exc |-> pad.exc, success |-> FALSE, index |-> -1]
            ELSE IF mc.current_hits = 1
            THEN [exc |-> "None", success |-> TRUE,
                  index |-> match_string(original,
                                [k \in 1..Len(search_lines) |-> pad.spaces \o search_lines[k]],
                                mc.index + 1).index]
            ELSE [exc |-> "None", success |-> FALSE, index |-> -1]

\* match_and_splice with the test for several hits ahead of the test for a
\* zero score
match_and_splice_hits_first(original, search_lines, replace_lines, context) ==
    LET m == match_string(original, search_lines, -1)
    IN IF m.current_hits > 1
       THEN LET r == resolve_hits(original, search_lines, context)
            IN IF r.exc # "None" THEN Raised(original, r.exc)
               ELSE IF ~ r.success THEN Returned(original, -1, MULTIPLE_HITS)
               ELSE IF r.index = -1 THEN Returned(original, -1, NOT_FOUND)
               ELSE splice(original, r.index, search_lines, replace_lines)
       ELSE IF m.max_similarity = 0
       THEN Returned(original, -1, IDENTICAL_LINES)
       ELSE IF m.index = -1 THEN Returned(original, -1, NOT_FOUND)
       ELSE splice(original, m.index, search_lines, replace_lines)

\* lines 244-279
match_and_splice(original, search_lines, replace_lines, context) ==
    LET m == match_string(original, search_lines, -1)
    IN IF m.max_similarity = 0
       THEN Returned(original, -1, IDENTICAL_LINES)
       ELSE IF m.current_hits > 1
       THEN LET r == resolve_hits(original, search_lines, context)
            IN IF r.exc # "None" THEN Raised(original, r.exc)
               ELSE IF ~ r.success THEN Returned(original, -1, MULTIPLE_HITS)
               ELSE IF r.index = -1 THEN Returned(original, -1, NOT_FOUND)
               ELSE splice(original, r.index, search_lines, replace_lines)
       ELSE IF m.index = -1 THEN Returned(original, -1, NOT_FOUND)
       ELSE splice(original, m.index, search_lines, replace_lines)

\* lines 213-242: what the elision-marker check leaves to match, and the
\* recursive application of the part after an interior marker
\* DotCase without the case of two leading markers
DotCase_without_first(original, search_lines, replace_lines) ==
    LET first_line_idx == first_dots(search_lines, 0)
        first_line_idx_replace == first_dots(replace_lines, 0)
    IN IF ~ canDoDotCheck(original) THEN "none"
       ELSE IF first_line_idx = Len(search_lines) - 1
               /\ first_line_idx_replace = Len(replace_lines) - 1 THEN "last"
       ELSE IF first_line_idx # -1 /\ first_line_idx_replace # -1 THEN "split"
       ELSE "none"

DotCase(original, search_lines, replace_lines) ==
    LET first_line_idx == first_dots(search_lines, 0)
        first_line_idx_replace == first_dots(replace_lines, 0)
    IN IF ~ canDoDotCheck(original) THEN "none"
       ELSE IF first_line_idx = 0 /\ first_line_idx_replace = 0 THEN "first"
       ELSE IF first_line_idx = Len(search_lines) - 1
               /\ first_line_idx_replace = Len(replace_lines) - 1 THEN "last"
       ELSE IF first_line_idx # -1 /\ first_line_idx_replace # -1 THEN "split"
       ELSE "none"

RECURSIVE sliding_window_replacement(_, _, _, _)
sliding_window_replacement(original, search_lines, replace_lines, context) ==
    LET first_line_idx == first_dots(search_lines, 0)
        first_line_idx_replace == first_dots(replace_lines, 0)
        dc == DotCase(original, search_lines, replace_lines)
    IN CASE dc = "first" ->
              match_and_splice(original, PySlice(search_lines, 1, Len(search_lines)),
                               PySlice(replace_lines, 1, Len(replace_lines)), context)
         [] dc = "last" ->
              match_and_splice(original, PySlice(search_lines, 0, first_line_idx),
                               PySlice(replace_lines, 0, first_line_idx_replace), context)
         [] dc = "split" ->
              LET inner == sliding_window_replacement(original,
                               PySlice(search_lines, first_line_idx + 1, Len(search_lines)),
                               PySlice(replace_lines, first_line_idx_replace + 1, Len(replace_lines)),
                               PySlice(search_lines, 0, first_line_idx))
              IN IF inner.exc # "None" THEN inner
                 ELSE match_and_splice(inner.original,
                               PySlice(search_lines, 0, first_line_idx),
                               PySlice(replace_lines, 0, first_line_idx_replace),
                               PySlice(search_lines, 0, first_line_idx))
         [] OTHER ->
              match_and_splice(original, search_lines, replace_lines, context)

\* split_calls with the search lines cut after the marker index of replace
RECURSIVE split_calls_replace_idx(_, _, _)
split_calls_replace_idx(original, search_lines, replace_lines) ==
    IF DotCase(original, search_lines, replace_lines) = "split"
    THEN LET first_line_idx_replace == first_dots(replace_lines, 0)
             s == PySlice(search_lines, first_line_idx_replace + 1, Len(search_lines))
             r == PySlice(replace_lines, first_line_idx_replace + 1, Len(replace_lines))
         IN <<s>> \o split_calls_replace_idx(original, s, r)
    ELSE <<>>

\* lines 236-240: the search lines of the nested calls one call of
\* sliding_window_replacement leads to, outermost first
RECURSIVE split_calls(_, _, _)
split_calls(original, search_lines, replace_lines) ==
    IF DotCase(original, search_lines, replace_lines) = "split"
    THEN LET first_line_idx == first_dots(search_lines, 0)
             first_line_idx_replace == first_dots(replace_lines, 0)
             s == PySlice(search_lines, first_line_idx + 1, Len(search_lines))
             r == PySlice(replace_lines, first_line_idx_replace + 1, Len(replace_lines))
         IN <<s>> \o split_calls(original, s, r)
    ELSE <<>>

----------------------------------------------------------------------------
\* Calls of sliding_window_replacement on bounded inputs

LA == <<"a">>
LIA == <<" ", "a">>
LB == <<"b">>
LC == <<"c">>

OrigLines == {LA, LIA, LB}
SearchLines == {LA, LIA, LB, Dots}
ReplaceLines == {LC, Dots}
Contexts == {<<LA>>, <<LIA>>, <<LA, LB>>}

Originals == SeqsUpTo(OrigLines, MaxOrig)
Searches == SeqsUpTo(SearchLines, MaxSearch)
Replaces == SeqsUpTo(ReplaceLines, MaxReplace)

NoCall == [exc |-> "None", original |-> <<>>, replace_index |-> -1, status |-> "pending"]

OrchIdle ==
    /\ pc = "idle" /\ num_lines = 0 /\ ends_nl = FALSE /\ size_idx = 0 /\ i = 0
    /\ new_file_contents = <<>> /\ attempts = <<>> /\ update_calls = <<>>
    /\ proposal_requests = 0
    /\ ret = "None"

PatchIdle ==
    /\ ppc = "idle" /\ old_file_lines = <<>> /\ search = <<>> /\ replace = <<>>
    /\ search_context_before = <<>> /\ swr = NoCall

NoResult == [exc |-> "None", text |-> <<>>]

GenIdle ==
    /\ gpc = "idle" /\ old_file_content = <<>> /\ matches = <<>>
    /\ hunk_idx = 0 /\ applied = <<>> /\ result = NoResult

CopyIdle ==
    /\ cpc = "idle" /\ copy_start = 0 /\ copy_end = 0 /\ chunk_offset = 0
    /\ replacements = <<>>

FormatIdle ==
    /\ fpc = "idle" /\ file_contents = <<>> /\ markdown = FALSE /\ formatted = <<>>

NoMatch == [index |-> -1, max_similarity |-> 0, current_hits |-> 0]

MatchIdle ==
    /\ mpc = "idle" /\ from_index = -1 /\ matched = NoMatch
    /\ scan_i = 0 /\ scan_j = 0 /\ scan_count = 0

PatchInit ==
    /\ ppc = "input"
    /\ old_file_lines \in Originals
    /\ search \in Searches
    /\ \/ /\ search_context_before = <<>>
          /\ replace \in Replaces \cup {search}
       \/ /\ search_context_before \in Contexts
          /\ replace \in {search, <<LC>>}
    /\ swr = NoCall
    /\ OrchIdle
    /\ GenIdle
    /\ CopyIdle
    /\ FormatIdle
    /\ MatchIdle

\* generate_new_file_from_patch line 308: a hunk applied without context
ApplyHunk ==
    /\ ppc = "input"
    /\ search_context_before = <<>>
    /\ swr' = sliding_window_replacement(old_file_lines, search, replace, <<>>)
    /\ ppc' = "done"
    /\ UNCHANGED <<old_file_lines, search, replace, search_context_before>>
    /\ UNCHANGED <<orchVars, genVars, copyVars, formatVars, matchVars>>

\* sliding_window_replacement line 240: the call made with a context
ApplyWithContext ==
    /\ ppc = "input"
    /\ search_context_before # <<>>
    /\ swr' = sliding_window_replacement(old_file_lines, search, replace,
                                         search_context_before)
    /\ ppc' = "done"
    /\ UNCHANGED <<old_file_lines, search, replace, search_context_before>>
    /\ UNCHANGED <<orchVars, genVars, copyVars, formatVars, matchVars>>

PatchNext == ApplyHunk \/ ApplyWithContext

SpecPatch == PatchInit /\ [][PatchNext]_vars

\* Calls on originals with tab-indented lines, lines that hold three dots
\* inside other text, and marker lines
LTA == <<"\t", "a">>
LAD == <<"a", ".", ".", ".">>

TextOrigLines == {LA, LB, LTA, LAD, Dots}
TextSearchLines == {LA, LB, Dots}

LinesInit ==
    /\ ppc = "input"
    /\ old_file_lines \in SeqsUpTo(TextOrigLines, MaxLinesOrig)
    /\ search \in SeqsUpTo(TextSearchLines, MaxSearch)
    /\ replace \in Replaces \cup {search}
    /\ search_context_before = <<>>
    /\ swr = NoCall
    /\ OrchIdle
    /\ GenIdle
    /\ CopyIdle
    /\ FormatIdle
    /\ MatchIdle

SpecLines == LinesInit /\ [][ApplyHunk]_vars

\* Calls with hunks of up to MaxDeep lines that hold several markers
DeepInit ==
    /\ ppc = "input"
    /\ old_file_lines \in SeqsUpTo({LA, LB}, MaxLinesOrig)
    /\ search \in SeqsUpTo({LA, Dots}, MaxDeep)
    /\ replace \in SeqsUpTo({LC, Dots}, MaxDeep)
    /\ search_context_before = <<>>
    /\ swr = NoCall
    /\ OrchIdle
    /\ GenIdle
    /\ CopyIdle
    /\ FormatIdle
    /\ MatchIdle

SpecDeep == DeepInit /\ [][ApplyHunk]_vars

\* Calls with indented search and replace lines
LIIA == <<" ", " ", "a">>
LIC == <<" ", "c">>
LIIC == <<" ", " ", "c">>
LIIIC == <<" ", " ", " ", "c">>
LTC == <<"\t", "c">>

IndentInit ==
    /\ ppc = "input"
    /\ old_file_lines \in SeqsUpTo({LA, LIA, LIIA}, MaxLinesOrig)
    /\ search \in SeqsUpTo({LA, LIA, LIIA, LTA}, MaxIndentLines)
    /\ replace \in SeqsUpTo({LC, LIC, LIIC, LIIIC, LTC}, MaxIndentLines)
    /\ search_context_before = <<>>
    /\ swr = NoCall
    /\ OrchIdle
    /\ GenIdle
    /\ CopyIdle
    /\ FormatIdle
    /\ MatchIdle

SpecIndent == IndentInit /\ [][ApplyHunk]_vars

----------------------------------------------------------------------------
\* generate_new_file_from_patch (lines 286-311)
\*
\* A text is the sequence of its lines under split("\n"): "" is <<<<>>>>,
\* "a\nb" is <<LA, LB>> and "a\n" is <<LA, <<>>>>.  The texts of the model
\* hold no "\r" and no <old_file> tag, so the two tests at lines 300-306 fail
\* and leave search and replace as they are.  The hunks are given as the list
\* re.findall returns at line 290.

\* str.splitlines(): a final line terminator opens no further line
splitlines(text) ==
    IF text[Len(text)] = <<>> THEN SubSeq(text, 1, Len(text) - 1) ELSE text

\* '\n'.join(lines)
join(lines) == IF lines = <<>> THEN <<<<>>>> ELSE lines

\* `not old_file_content` (the test of line 292 without strip())
is_blank_empty_only(text) == text = <<<<>>>>

\* `not old_file_content.strip()`
is_blank(text) ==
    \A n \in 1..Len(text) : \A c \in 1..Len(text[n]) : IsSpace(text[n][c])

\* the hunk the loop at line 298 takes last-first
next_match_reversed(ms, done) == ms[Len(ms) - done]

\* the hunk the loop at line 298 takes after `done` iterations
next_match(ms, done) == ms[done + 1]

TextLines == {LA, LB, <<" ">>, <<>>}
Texts == SeqsUpTo(TextLines, MaxGenLines) \ {<<>>}
HunkSearchTexts == {<<LA>>, <<LB>>, <<LC>>}
HunkReplaceTexts == {<<LC>>, <<LA>>, <<<<>>>>}
Hunks == [search : HunkSearchTexts, replace : HunkReplaceTexts]

GenInit ==
    /\ gpc = "begin"
    /\ old_file_content \in Texts
    /\ matches \in SeqsUpTo(Hunks, MaxGenHunks)
    /\ hunk_idx = 0 /\ applied = <<>> /\ result = NoResult
    /\ PatchIdle
    /\ OrchIdle
    /\ CopyIdle
    /\ FormatIdle
    /\ MatchIdle

\* lines 287-296: split the content; a blank content returns the replace text
\* of the first hunk (unpacking an empty list raises ValueError)
GenBegin ==
    /\ gpc = "begin"
    /\ old_file_lines' = splitlines(old_file_content)
    /\ IF is_blank(old_file_content)
       THEN /\ gpc' = "done"
            /\ result' = IF matches = <<>>
                         THEN [exc |-> "ValueError", text |-> <<>>]
                         ELSE [exc |-> "None", text |-> matches[1].replace]
       ELSE /\ gpc' = "loop"
            /\ UNCHANGED result
    /\ UNCHANGED <<ppc, search, replace, search_context_before, swr>>
    /\ UNCHANGED <<old_file_content, matches, hunk_idx, applied>>
    /\ UNCHANGED <<orchVars, copyVars, formatVars, matchVars>>

\* lines 298-308: one iteration of the loop over the hunks
GenApply ==
    /\ gpc = "loop"
    /\ hunk_idx < Len(matches)
    /\ LET m == next_match(matches, hunk_idx)
           r == sliding_window_replacement(old_file_lines, splitlines(m.search),
                                           splitlines(m.replace), <<>>)
       IN /\ search' = splitlines(m.search)
          /\ replace' = splitlines(m.replace)
          /\ swr' = r
          /\ IF r.exc # "None"
             THEN /\ gpc' = "done"
                  /\ result' = [exc |-> r.exc, text |-> <<>>]
                  /\ UNCHANGED <<old_file_lines, hunk_idx, applied>>
             ELSE /\ old_file_lines' = r.original
                  /\ hunk_idx' = hunk_idx + 1
                  /\ applied' = Append(applied, r.replace_index)
                  /\ UNCHANGED <<gpc, result>>
    /\ UNCHANGED <<ppc, search_context_before, old_file_content, matches>>
    /\ UNCHANGED <<orchVars, copyVars, formatVars, matchVars>>

\* lines 310-311
GenReturn ==
    /\ gpc = "loop"
    /\ hunk_idx = Len(matches)
    /\ gpc' = "done"
    /\ result' = [exc |-> "None", text |-> join(old_file_lines)]
    /\ UNCHANGED patchVars
    /\ UNCHANGED <<old_file_content, matches, hunk_idx, applied>>
    /\ UNCHANGED <<orchVars, copyVars, formatVars, matchVars>>

GenNext == GenBegin \/ GenApply \/ GenReturn

SpecGen == GenInit /\ [][GenNext]_vars

----------------------------------------------------------------------------
\* generate_new_file (lines 109-156): one <copy_lines start-end> reference of
\* the response, resolved against the lines of the chunk (lines 125-135)

\* the text of line k of a chunk whose lines are pairwise different
NumberedLine(k) == [j \in 1..k |-> "x"]

\* copy_lines without the correction for the chunk offset
copy_lines_no_offset(lines, first, last, offset) ==
    LET start == Max(0, first - 1)
        end == Min(Len(lines) - 1, last - 1)
    IN PySlice(lines, start, end + 1)

\* lines 127-135: start and end are the numbers of the reference
copy_lines(lines, first, last, offset) ==
    LET start0 == IF offset # 0 THEN first - 1 - offset ELSE first - 1
        end0 == IF offset # 0 THEN last - 1 - offset ELSE last - 1
        start == Max(0, start0)
        end == Min(Len(lines) - 1, end0)
    IN PySlice(lines, start, end + 1)

CopyInit ==
    /\ cpc = "input"
    /\ \E n \in 1..MaxChunkLines : old_file_lines = [k \in 1..n |-> NumberedLine(k)]
    /\ chunk_offset \in 0..MaxOffset
    /\ copy_start \in 0..(MaxOffset + MaxChunkLines + 1)
    /\ copy_end \in 0..(MaxOffset + MaxChunkLines + 1)
    /\ replacements = <<>>
    /\ ppc = "idle" /\ search = <<>> /\ replace = <<>>
    /\ search_context_before = <<>> /\ swr = NoCall
    /\ OrchIdle
    /\ GenIdle
    /\ FormatIdle
    /\ MatchIdle

ResolveCopyLines ==
    /\ cpc = "input"
    /\ replacements' = copy_lines(old_file_lines, copy_start, copy_end, chunk_offset)
    /\ cpc' = "done"
    /\ UNCHANGED <<copy_start, copy_end, chunk_offset>>
    /\ UNCHANGED <<patchVars, orchVars, genVars, formatVars, matchVars>>

SpecCopy == CopyInit /\ [][ResolveCopyLines]_vars

----------------------------------------------------------------------------
\* format_contents (lines 65-106) on a text given by its lines

\* the grave accent (U+0060), written as a word
BACKTICK == "grave"
Fence == <<BACKTICK, BACKTICK, BACKTICK>>
UserCodeTag == <<"u", "s", "e", "r", "_", "c", "o", "d", "e", ">">>

\* str.startswith and str.endswith
startswith(s, prefix) ==
    Len(s) >= Len(prefix) /\ SubSeq(s, 1, Len(prefix)) = prefix
endswith(s, suffix) ==
    Len(s) >= Len(suffix) /\ SubSeq(s, Len(s) - Len(suffix) + 1, Len(s)) = suffix

\* lines 76-82: the loop over the lines of a file of at most 5 lines
RECURSIVE small_file_scan(_, _, _, _)
small_file_scan(lines, idx, start_idx, end_idx) ==
    IF idx >= Len(lines) THEN [start_idx |-> start_idx, end_idx |-> end_idx]
    ELSE LET line == strip(lines[idx + 1])
             s == IF start_idx = 0 /\ startswith(line, Fence) THEN idx + 1 ELSE start_idx
             e == IF s # 0 /\ endswith(line, Fence) THEN idx ELSE end_idx
         IN small_file_scan(lines, idx + 1, s, e)

\* lines 88-95: first_line_idx after the loop over the first three lines
RECURSIVE first_scan(_, _, _)
first_scan(three, idx, first_line_idx) ==
    IF idx >= Len(three) THEN first_line_idx
    ELSE LET line == strip(three[idx + 1])
         IN first_scan(three, idx + 1,
                IF startswith(line, Fence) \/ Contains(line, UserCodeTag)
                THEN Max(first_line_idx, idx + 1) ELSE first_line_idx)

\* lines 89, 96-101: last_line_idx after the loop over the last three lines
RECURSIVE last_scan(_, _, _)
last_scan(three, idx, last_line_idx) ==
    IF idx >= Len(three) THEN last_line_idx
    ELSE LET line == strip(three[idx + 1])
         IN last_scan(three, idx + 1,
                IF endswith(line, Fence) \/ Contains(line, UserCodeTag)
                THEN Min(idx, last_line_idx) ELSE last_line_idx)

\* format_contents with the middle taken as lines[4:-3]
format_contents_short_middle(text, is_markdown) ==
    IF is_markdown THEN join(text)
    ELSE IF Len(text) <= 5
    THEN LET r == small_file_scan(text, 0, 0, Len(text))
         IN join(PySlice(text, r.start_idx, r.end_idx))
    ELSE LET first_three_lines == PySlice(text, 0, 3)
             last_three_lines == PySlice(text, -3, Len(text))
             first_line_idx == first_scan(first_three_lines, 0, 0)
             last_line_idx == last_scan(last_three_lines, 0, 3)
         IN join(PySlice(first_three_lines, first_line_idx, 3)
                 \o PySlice(text, 4, -3)
                 \o PySlice(last_three_lines, 0, last_line_idx))

\* lines 65-106; the text is the list file_contents.split('\n')
format_contents(text, is_markdown) ==
    IF is_markdown THEN join(text)
    ELSE IF Len(text) <= 5
    THEN LET r == small_file_scan(text, 0, 0, Len(text))
         IN join(PySlice(text, r.start_idx, r.end_idx))
    ELSE LET first_three_lines == PySlice(text, 0, 3)
             last_three_lines == PySlice(text, -3, Len(text))
             first_line_idx == first_scan(first_three_lines, 0, 0)
             last_line_idx == last_scan(last_three_lines, 0, 3)
         IN join(PySlice(first_three_lines, first_line_idx, 3)
                 \o PySlice(text, 3, -3)
                 \o PySlice(last_three_lines, 0, last_line_idx))

\* a plain line, an opening fence with a language, a line that ends with a
\* fence, a bare fence, a line with the user_code tag
LFenceA == Fence \o LA
LAFence == LA \o Fence
LTag == <<"<">> \o UserCodeTag
FormatLines == {LA, LFenceA, LAFence, Fence, LTag}

FormatInit ==
    /\ fpc = "input"
    /\ file_contents \in SeqsUpTo(FormatLines, MaxFormatLines) \ {<<>>}
    /\ markdown \in BOOLEAN
    /\ formatted = <<>>
    /\ PatchIdle
    /\ OrchIdle
    /\ GenIdle
    /\ CopyIdle
    /\ MatchIdle

FormatContents ==
    /\ fpc = "input"
    /\ formatted' = format_contents(file_contents, markdown)
    /\ fpc' = "done"
    /\ UNCHANGED <<file_contents, markdown>>
    /\ UNCHANGED <<patchVars, orchVars, genVars, copyVars, matchVars>>

SpecFormat == FormatInit /\ [][FormatContents]_vars

----------------------------------------------------------------------------
\* match_string (lines 161-183) run loop by loop on long blocks: the
\* original is a run of equally indented lines, a different line, a run of
\* the same lines without the indentation, and a different line again; the
\* search is a block of the indented lines.  Scores are in hundredths as in
\* window_count.

Repeat(line, k) == [x \in 1..k |-> line]

BlockSizes == {0, 1, MaxBlock - 1, MaxBlock}

BlockInit ==
    /\ mpc = "input"
    /\ \E n \in BlockSizes \ {0} : search = Repeat(LIA, n)
    /\ \E q \in BlockSizes : \E p \in BlockSizes :
          old_file_lines = Repeat(LIA, q) \o <<LB>> \o Repeat(LA, p) \o <<LB>>
    /\ from_index \in {-1, 0}
    /\ matched = NoMatch
    /\ scan_i = 0 /\ scan_j = 0 /\ scan_count = 0
    /\ ppc = "idle" /\ replace = <<>>
    /\ search_context_before = <<>> /\ swr = NoCall
    /\ OrchIdle
    /\ GenIdle
    /\ CopyIdle
    /\ FormatIdle

\* lines 162-168: the three results and the first value of i
ScanBegin ==
    /\ mpc = "input"
    /\ mpc' = "scan"
    /\ matched' = [index |-> -1, max_similarity |-> 0, current_hits |-> 0]
    /\ scan_i' = (IF from_index = -1 THEN 0 ELSE from_index)
    /\ scan_j' = 0
    /\ scan_count' = 0
    /\ UNCHANGED from_index
    /\ UNCHANGED <<patchVars, orchVars, genVars, copyVars, formatVars>>

\* lines 170-176: one pass of the loop over j
ScanLine ==
    /\ mpc = "scan"
    /\ scan_i < Len(old_file_lines)
    /\ scan_j < Len(search)
    /\ scan_count' =
          (IF scan_i + scan_j < Len(old_file_lines)
              /\ strip(search[scan_j + 1]) = strip(old_file_lines[scan_i + scan_j + 1])
           THEN scan_count + 100
                + (IF from_index # -1
                      /\ search[scan_j + 1] = old_file_lines[scan_i + scan_j + 1]
                   THEN 1 ELSE 0)
           ELSE scan_count)
    /\ scan_j' = scan_j + 1
    /\ UNCHANGED <<mpc, from_index, scan_i, matched>>
    /\ UNCHANGED <<patchVars, orchVars, genVars, copyVars, formatVars>>

\* lines 177-182: the end of the pass for window i, and line 169 for the next
ScanWindowEnd ==
    /\ mpc = "scan"
    /\ scan_i < Len(old_file_lines)
    /\ scan_j = Len(search)
    /\ matched' =
          (IF scan_count > matched.max_similarity
           THEN [index |-> scan_i, max_similarity |-> scan_count, current_hits |-> 1]
           ELSE IF scan_count = matched.max_similarity
           THEN [matched EXCEPT !.current_hits = @ + 1]
           ELSE matched)
    /\ scan_i' = scan_i + 1
    /\ scan_j' = 0
    /\ scan_count' = 0
    /\ UNCHANGED <<mpc, from_index>>
    /\ UNCHANGED <<patchVars, orchVars, genVars, copyVars, formatVars>>

\* line 183
ScanReturn ==
    /\ mpc = "scan"
    /\ scan_i >= Len(old_file_lines)
    /\ mpc' = "done"
    /\ UNCHANGED <<from_index, scan_i, scan_j, scan_count, matched>>
    /\ UNCHANGED <<patchVars, orchVars, genVars, copyVars, formatVars>>

BlockNext == ScanBegin \/ ScanLine \/ ScanWindowEnd \/ ScanReturn

SpecBlock == BlockInit /\ [][BlockNext]_vars

----------------------------------------------------------------------------
\* sweepai/core/sweep_bot.py: SweepBot.modify_file and handle_modify_file
\*
\* The file is described by its number of lines (file_contents.split("\n"))
\* and by whether its last line is empty (the content ends with "\n"; for a
\* one-line file: the content is empty).  All other lines are taken to be
\* non-blank, pairwise different and free of code fences, so that
\* format_contents leaves them alone.  A text is a sequence of pieces; a piece
\* is the text one call produced for the line range [lo, hi):
\*   kind "orig"   the chunk's own text (chunk_contents, line 533)
\*   kind "norm"   '\n'.join(chunk_contents.splitlines()) (diff.py 287, 310)
\*   kind "edited" a text with at least one hunk spliced in
\*   failed        some hunk of the response ended in a failure status
\*   sep           a "\n" follows the piece (line 544)
\*   size          the CHUNK_SIZE of the attempt that produced the piece

MaxHunks == 1

chunk_sizes == <<800, 600, 400>>

FileLineCounts == {1, 3, 1000, 1201}

HunkOutcomes == {"None", IDENTICAL_LINES, NOT_FOUND, MULTIPLE_HITS, "IndexError"}

\* What the language model does in one call of modify_file: the first chat
\* raises a max-tokens error, raises another error, or answers with hunks
\* (each described by what sliding_window_replacement does with it); the
\* validation chat raises or answers.
Responses ==
    [chat : {"max tokens", "error"}, hunks : {<<>>}, validation : {"ok"}]
    \cup [chat : {"ok"}, hunks : SeqsUpTo(HunkOutcomes, MaxHunks),
          validation : {"ok", "error"}]

\* the chunk [lo, hi) is empty or whitespace-only
Blank(lo, hi) == ends_nl /\ lo = num_lines - 1 /\ hi = num_lines

\* diff.py 286-311 on the chunk [lo, hi): the kind of text returned, or the
\* exception raised.  The status of each hunk is dropped at line 308.
generate_new_file_from_patch(hunks, lo, hi) ==
    IF Blank(lo, hi)
    THEN IF hunks = <<>>
         THEN [exc |-> "ValueError", kind |-> "none", failed |-> FALSE]
         ELSE [exc |-> "None", kind |-> "edited", failed |-> FALSE]
    ELSE IF \E k \in 1..Len(hunks) : hunks[k] = "IndexError"
    THEN [exc |-> "IndexError", kind |-> "none", failed |-> FALSE]
    ELSE [exc |-> "None",
          kind |-> IF \E k \in 1..Len(hunks) : hunks[k] = "None"
                   THEN "edited" ELSE "norm",
          failed |-> \E k \in 1..Len(hunks) :
                        hunks[k] \in {IDENTICAL_LINES, NOT_FOUND, MULTIPLE_HITS}]

\* sweep_bot.py 337-412 with retries = 1
modify_file(response, lo, hi) ==
    IF response.chat = "max tokens"
    THEN [exc |-> "MaxTokensExceeded", kind |-> "none", failed |-> FALSE]
    ELSE IF response.chat = "error"
    THEN [exc |-> "Exception", kind |-> "none", failed |-> FALSE]
    ELSE LET new_file == generate_new_file_from_patch(response.hunks, lo, hi)
         IN IF new_file.exc # "None" \/ response.validation = "error"
            THEN [exc |-> "Exception", kind |-> "none", failed |-> FALSE]
            ELSE new_file

Piece(size, lo, hi, kind, failed, sep) ==
    [size |-> size, lo |-> lo, hi |-> hi, kind |-> kind, failed |-> failed, sep |-> sep]

\* the text of the piece is the text of the lines [lo, hi) of the file
PieceIsOriginal(p) ==
    \/ p.kind = "orig"
    \/ p.kind = "norm" /\ ~ (ends_nl /\ p.hi = num_lines)

\* file_contents == new_file_contents (line 551)
SameAsFile(text) ==
    IF text = <<>>
    THEN num_lines = 1 /\ ends_nl
    ELSE /\ text[1].lo = 0
         /\ text[Len(text)].hi = num_lines
         /\ \A k \in 1..Len(text) :
               /\ PieceIsOriginal(text[k])
               /\ text[k].sep = (k < Len(text))
               /\ k < Len(text) => text[k].hi = text[k + 1].lo

CHUNK_SIZE == chunk_sizes[size_idx]

\* chunking decided once, from the first candidate size
chunking_first_size == 2 * num_lines > 3 * chunk_sizes[1]

\* len(lines) > CHUNK_SIZE * 1.5 (line 517)
chunking == 2 * num_lines > 3 * CHUNK_SIZE

Init ==
    /\ pc = "get_file"
    /\ num_lines \in FileLineCounts
    /\ ends_nl \in BOOLEAN
    /\ size_idx = 0
    /\ i = 0
    /\ new_file_contents = <<>>
    /\ attempts = <<>>
    /\ update_calls = <<>>
    /\ proposal_requests = 0
    /\ ret = "None"
    /\ PatchIdle
    /\ GenIdle
    /\ CopyIdle
    /\ FormatIdle
    /\ MatchIdle

\* lines 508-514
GetFile ==
    /\ pc = "get_file"
    /\ \/ /\ pc' = "attempt"
          /\ size_idx' = 1
          /\ new_file_contents' = <<>>
          /\ UNCHANGED ret
       \/ /\ pc' = "done"          \* get_file raises: lines 580-583
          /\ ret' = "False"
          /\ UNCHANGED <<size_idx, new_file_contents>>
    /\ UNCHANGED <<num_lines, ends_nl, i, attempts, update_calls, proposal_requests>>
    /\ UNCHANGED <<patchVars, genVars, copyVars, formatVars, matchVars>>

\* lines 515-519 and 529: one iteration of `for CHUNK_SIZE in chunk_sizes`
BeginAttempt ==
    /\ pc = "attempt"
    /\ attempts' = Append(attempts, [size |-> CHUNK_SIZE, chunking |-> chunking,
                                      outcome |-> "running"])
    /\ i' = 0
    /\ pc' = IF chunking THEN "chunk" ELSE "whole"
    /\ UNCHANGED <<num_lines, ends_nl, size_idx, new_file_contents, update_calls,
                   proposal_requests, ret>>
    /\ UNCHANGED <<patchVars, genVars, copyVars, formatVars, matchVars>>

\* lines 548-549 and the end of the for loop
AttemptRaised(exc) ==
    /\ attempts' = [attempts EXCEPT ![Len(attempts)].outcome = exc]
    /\ IF size_idx < Len(chunk_sizes)
       THEN size_idx' = size_idx + 1 /\ pc' = "attempt"
       ELSE size_idx' = size_idx /\ pc' = "compare"

\* AttemptCompleted without the `break`: the next size is tried all the same
AttemptCompleted_no_break ==
    /\ attempts' = [attempts EXCEPT ![Len(attempts)].outcome = "completed"]
    /\ IF size_idx < Len(chunk_sizes)
       THEN size_idx' = size_idx + 1 /\ pc' = "attempt"
       ELSE size_idx' = size_idx /\ pc' = "compare"

\* line 547
AttemptCompleted ==
    /\ attempts' = [attempts EXCEPT ![Len(attempts)].outcome = "completed"]
    /\ size_idx' = size_idx
    /\ pc' = "compare"

\* lines 520-527
WholeFile ==
    /\ pc = "whole"
    /\ \E response \in Responses :
          LET r == modify_file(response, 0, num_lines)
          IN IF r.exc # "None"
             THEN AttemptRaised(r.exc) /\ UNCHANGED new_file_contents
             ELSE /\ new_file_contents' =
                        <<Piece(CHUNK_SIZE, 0, num_lines, r.kind, r.failed, FALSE)>>
                  /\ AttemptCompleted
    /\ proposal_requests' = proposal_requests + 1
    /\ UNCHANGED <<num_lines, ends_nl, i, update_calls, ret>>
    /\ UNCHANGED <<patchVars, genVars, copyVars, formatVars, matchVars>>

\* AppendChunk with a "\n" after every chunk, the last one included
AppendChunk_newline_always(kind, failed) ==
    LET hi == Min(i + CHUNK_SIZE, num_lines)
    IN /\ new_file_contents' = Append(new_file_contents,
              Piece(CHUNK_SIZE, i, hi, kind, failed, TRUE))
       /\ i' = i + CHUNK_SIZE
       /\ IF i + CHUNK_SIZE < num_lines
          THEN pc' = "chunk" /\ UNCHANGED <<attempts, size_idx>>
          ELSE AttemptCompleted

\* lines 543-546 and the loop header at 529
AppendChunk(kind, failed) ==
    LET hi == Min(i + CHUNK_SIZE, num_lines)
    IN /\ new_file_contents' = Append(new_file_contents,
              Piece(CHUNK_SIZE, i, hi, kind, failed, i + CHUNK_SIZE < num_lines))
       /\ i' = i + CHUNK_SIZE
       /\ IF i + CHUNK_SIZE < num_lines
          THEN pc' = "chunk" /\ UNCHANGED <<attempts, size_idx>>
          ELSE AttemptCompleted

\* lines 530-533: should_edit reports the chunk irrelevant
SkipChunk ==
    /\ pc = "chunk"
    /\ AppendChunk("orig", FALSE)
    /\ UNCHANGED <<num_lines, ends_nl, update_calls, proposal_requests, ret>>
    /\ UNCHANGED <<patchVars, genVars, copyVars, formatVars, matchVars>>

\* lines 535-542
EditChunk ==
    /\ pc = "chunk"
    /\ \E response \in Responses :
          LET r == modify_file(response, i, Min(i + CHUNK_SIZE, num_lines))
          IN IF r.exc # "None"
             THEN AttemptRaised(r.exc) /\ UNCHANGED <<new_file_contents, i>>
             ELSE AppendChunk(r.kind, r.failed)
    /\ proposal_requests' = proposal_requests + 1
    /\ UNCHANGED <<num_lines, ends_nl, update_calls, ret>>
    /\ UNCHANGED <<patchVars, genVars, copyVars, formatVars, matchVars>>

\* lines 551-553
Compare ==
    /\ pc = "compare"
    /\ IF SameAsFile(new_file_contents)
       THEN pc' = "done" /\ ret' = "False"
       ELSE pc' = "update" /\ UNCHANGED ret
    /\ UNCHANGED <<num_lines, ends_nl, size_idx, i, new_file_contents, attempts,
                   update_calls, proposal_requests>>
    /\ UNCHANGED <<patchVars, genVars, copyVars, formatVars, matchVars>>

\* lines 558-577: update_file, and once more after it raised
UpdateFile ==
    /\ pc \in {"update", "update_again"}
    /\ update_calls' = Append(update_calls, new_file_contents)
    /\ \/ pc' = "done" /\ ret' = "True"
       \/ /\ pc = "update"
          /\ \/ pc' = "update_again" /\ UNCHANGED ret
             \/ pc' = "done" /\ ret' = "False"     \* get_file raises at 569
       \/ pc = "update_again" /\ pc' = "done" /\ ret' = "False"
    /\ UNCHANGED <<num_lines, ends_nl, size_idx, i, new_file_contents, attempts,
                   proposal_requests>>
    /\ UNCHANGED <<patchVars, genVars, copyVars, formatVars, matchVars>>

Next ==
    \/ GetFile
    \/ BeginAttempt
    \/ WholeFile
    \/ SkipChunk
    \/ EditChunk
    \/ Compare
    \/ UpdateFile

Spec == Init /\ [][Next]_vars

\* handle_modify_file on files that do not end with a newline: one that is
\* never chunked, one that is chunked from size 600 on, one that is always
\* chunked
ChunkInit ==
    /\ Init
    /\ num_lines \in {3, 1000, 1201}
    /\ ~ ends_nl

SpecChunks == ChunkInit /\ [][Next]_vars

----------------------------------------------------------------------------
\* Properties of handle_modify_file (checked under Spec)

LastAttempt == attempts[Len(attempts)]

AllSizesFailed ==
    /\ Len(attempts) = Len(chunk_sizes)
    /\ \A k \in 1..Len(attempts) : attempts[k].outcome \in {"Exception", "MaxTokensExceeded"}

\* the pieces are the chunks of one attempt, in chunk order
InChunkOrder(text) ==
    /\ text # <<>>
    /\ text[1].lo = 0
    /\ text[Len(text)].hi = num_lines
    /\ \A k \in 1..(Len(text) - 1) : text[k].hi = text[k + 1].lo

\* C1: when an attempt at a smaller size completes after a larger size
\* raised, every text handed to update_file consists only of the chunk
\* results of the completed size, in chunk order.
C1_OnlyCompletedSizeWritten ==
    \A c \in 1..Len(update_calls) :
        (Len(attempts) > 1 /\ LastAttempt.outcome = "completed") =>
            /\ InChunkOrder(update_calls[c])
            /\ \A k \in 1..Len(update_calls[c]) :
                  update_calls[c][k].size = LastAttempt.size

\* C2: when every candidate chunk size failed, update_file is never called
\* and the edit is reported as failed.
C2_NoWriteWhenAllSizesFail ==
    AllSizesFailed =>
        /\ update_calls = <<>>
        /\ pc = "done" => ret = "False"

\* C3: a max-tokens failure ends handle_modify_file at once with
\* MaxTokensExceeded: no further attempt is made and nothing is written.
C3_MaxTokensPropagates ==
    \A k \in 1..Len(attempts) :
        attempts[k].outcome = "MaxTokensExceeded" =>
            /\ k = Len(attempts)
            /\ update_calls = <<>>
            /\ pc = "done"
            /\ ret = "MaxTokensExceeded"

\* C9: in a chunked attempt, the text of a chunk whose proposal ended in a
\* per-hunk failure status is never appended to the accumulated output.
C9_FailedChunkNotAppended ==
    \A k \in 1..Len(new_file_contents) :
        (2 * num_lines > 3 * new_file_contents[k].size) =>
            ~ new_file_contents[k].failed

\* C10: a response without any valid hunk for a non-empty file never leads
\* to an update_file call: no text obtained from such a response is written.
C10_NoHunkNoWrite ==
    \A c \in 1..Len(update_calls) :
        \A k \in 1..Len(update_calls[c]) :
            ~ (update_calls[c][k].kind = "norm" /\ ~ update_calls[c][k].failed)

----------------------------------------------------------------------------
\* Properties of sliding_window_replacement (checked under SpecPatch)

N == Len(old_file_lines)
M == Len(search)

\* the window of old_file_lines that starts at index w equals search verbatim
VerbatimAt(w) ==
    /\ w + M <= N
    /\ \A j \in 0..(M - 1) : old_file_lines[w + j + 1] = search[j + 1]

\* every search line is trimmed-equal to the aligned line of the window at w
TrimmedAt(w) ==
    /\ w + M <= N
    /\ \A j \in 0..(M - 1) : strip(old_file_lines[w + j + 1]) = strip(search[j + 1])

\* no line of s is trimmed-equal to the line of o it is aligned with, in any
\* window of o
NoAlignedMatch(o, s) ==
    \A w \in 0..(Len(o) - 1) : \A j \in 0..(Len(s) - 1) :
        w + j < Len(o) => strip(s[j + 1]) # strip(o[w + j + 1])

\* no line of s other than a marker is trimmed-equal to any line of o
NoSharedLine(o, s) ==
    \A k \in 1..Len(o) : \A j \in 1..Len(s) :
        strip(s[j]) # Dots => strip(s[j]) # strip(o[k])

Failed(status) ==
    /\ swr.exc = "None"
    /\ swr.status = status
    /\ swr.replace_index = -1

\* C4: a hunk whose search lines equal its replace lines leaves the line
\* sequence as it was.
C4_NoOpHunk ==
    (ppc = "done" /\ search = replace /\ swr.exc = "None") =>
        swr.original = old_file_lines

\* C5 as stated: a hunk whose search lines equal a window of the original
\* verbatim is applied at the start of such a window, with score M.
C5_VerbatimApplied ==
    (ppc = "done" /\ M >= 1 /\ \E w \in 0..(N - 1) : VerbatimAt(w)) =>
        /\ swr.exc = "None"
        /\ swr.status = "None"
        /\ swr.replace_index >= 0 /\ VerbatimAt(swr.replace_index)
        /\ match_string(old_file_lines, search, -1).max_similarity = 100 * M

\* C5 as amended: a hunk whose non-empty search lines equal a window of the
\* original verbatim, no other window being trimmed-equal to them, is
\* applied at that window's start index, with score M.
C5_UniqueVerbatimApplied ==
    \A w \in 0..(N - 1) :
        (/\ ppc = "done" /\ M >= 1 /\ VerbatimAt(w)
         /\ \A v \in 0..(N - 1) : TrimmedAt(v) => v = w) =>
            /\ swr.exc = "None"
            /\ swr.status = "None"
            /\ swr.replace_index = w
            /\ match_string(old_file_lines, search, -1).max_similarity = 100 * M

C5_Witness ==
    /\ ppc = "done" /\ M = 2 /\ N = 3
    /\ VerbatimAt(1)
    /\ \A v \in 0..(N - 1) : TrimmedAt(v) => v = 1
    /\ swr.status = "None" /\ swr.replace_index = 1
    /\ swr.original # old_file_lines

\* C6: search lines that equal two disjoint windows of the original, with no
\* context supplied, give MULTIPLE_HITS and no match index.
C6_TwoWindowsMultipleHits ==
    (/\ ppc = "done" /\ search_context_before = <<>> /\ M >= 1
     /\ \E w \in 0..(N - 1) : \E v \in 0..(N - 1) :
            v >= w + M /\ VerbatimAt(w) /\ VerbatimAt(v)) =>
        Failed(MULTIPLE_HITS)

C6_Witness ==
    /\ ppc = "done" /\ search_context_before = <<>> /\ M = 1 /\ N = 3
    /\ VerbatimAt(0) /\ VerbatimAt(2) /\ ~ TrimmedAt(1)
    /\ replace # search
    /\ Failed(MULTIPLE_HITS)

\* C7: when no line of the search lines that are matched (the hunk's search
\* lines, less an elision marker on its first or last line) is trimmed-equal
\* to the aligned original line in any window, the status is IDENTICAL_LINES
\* with no match index; so it is for a hunk split at an interior marker none
\* of whose search lines is trimmed-equal to any original line.
C7_NoAnchorIdenticalLines ==
    ppc = "done" =>
        LET dc == DotCase(old_file_lines, search, replace)
        IN /\ (dc = "none" /\ NoAlignedMatch(old_file_lines, search))
                  => Failed(IDENTICAL_LINES)
           /\ (dc = "first" /\ NoAlignedMatch(old_file_lines, Tail(search)))
                  => Failed(IDENTICAL_LINES)
           /\ (dc = "last" /\ NoAlignedMatch(old_file_lines, SubSeq(search, 1, M - 1)))
                  => Failed(IDENTICAL_LINES)
           /\ (dc = "split" /\ NoSharedLine(old_file_lines, search))
                  => Failed(IDENTICAL_LINES)

C7_Witness ==
    /\ ppc = "done" /\ N = 2 /\ M = 3
    /\ DotCase(old_file_lines, search, replace) = "split"
    /\ first_dots(search, 0) = 1 /\ first_dots(replace, 0) = 1
    /\ NoSharedLine(old_file_lines, search)
    /\ Failed(IDENTICAL_LINES)

\* C8: sliding_window_replacement always returns and never raises.
C8_NeverRaises ==
    ppc = "done" => swr.exc = "None"

\* no line of the lines is an elision marker
NoMarker(lines) == first_dots(lines, 0) = -1

\* C12: a hunk without elision markers applied at index i keeps the lines
\* before i, puts one line per replace line at i, keeps the lines from i + M
\* on, and gives a sequence of length N - min(M, N - i) + |replace|.
C12_SpliceFrame ==
    (/\ ppc = "done" /\ swr.exc = "None" /\ swr.status = "None"
     /\ NoMarker(search) /\ NoMarker(replace)) =>
        LET idx == swr.replace_index
            r == swr.original
            L == Len(replace)
        IN /\ idx >= 0 /\ idx < N
           /\ Len(r) = N - Min(M, N - idx) + L
           /\ \A k \in 1..idx : r[k] = old_file_lines[k]
           /\ \A k \in 1..L : strip(r[idx + k]) = strip(replace[k])
           /\ \A k \in 1..(N - idx - M) : r[idx + L + k] = old_file_lines[idx + M + k]

C12_Witness ==
    /\ ppc = "done" /\ swr.exc = "None" /\ swr.status = "None"
    /\ NoMarker(search) /\ NoMarker(replace)
    /\ N = 3 /\ M = 1 /\ Len(replace) = 2
    /\ swr.replace_index = 1
    /\ Len(swr.original) = 4
    /\ swr.original[4] = old_file_lines[3]

\* the scan of match_string from start index st visits no window of positive
\* score
NoPositiveWindow(st) ==
    \A w \in (IF st = -1 THEN 0 ELSE st)..(N - 1) : \A j \in 0..(M - 1) :
        w + j < N => strip(search[j + 1]) # strip(old_file_lines[w + j + 1])

StartIndexes == {-1} \cup 0..N

\* C16 as stated: match_string returns index -1 only when it visits no start
\* index, and a visited index whenever it visits one.
C16_MinusOneOnlyIfNoneVisited ==
    ppc = "done" =>
        \A st \in StartIndexes :
            LET m == match_string(old_file_lines, search, st)
                first == IF st = -1 THEN 0 ELSE st
            IN IF first >= N THEN m.index = -1
               ELSE m.index >= first /\ m.index < N

\* C16 as amended: match_string returns index -1 exactly when no visited
\* start index has a positive score (in particular when none is visited),
\* and a visited index otherwise.
C16_MinusOneIffNoPositiveScore ==
    ppc = "done" =>
        \A st \in StartIndexes :
            LET m == match_string(old_file_lines, search, st)
                first == IF st = -1 THEN 0 ELSE st
            IN IF NoPositiveWindow(st) THEN m.index = -1
               ELSE m.index >= first /\ m.index < N

\* one call where a scan finds a window, a scan visits only a window of score
\* 0, and a scan visits no window
C16_Witness ==
    /\ ppc = "done" /\ N = 2 /\ M = 1
    /\ match_string(old_file_lines, search, -1).index = 0
    /\ ~ NoPositiveWindow(-1)
    /\ match_string(old_file_lines, search, 1).index = -1
    /\ match_string(old_file_lines, search, 2).index = -1

\* C17: when the context of an ambiguous hunk is located uniquely at index c,
\* the hunk is applied at an index of at least c + len(context).
C17_RescanAfterContext ==
    (/\ ppc = "done" /\ search_context_before # <<>>
     /\ DotCase(old_file_lines, search, replace) = "none"
     /\ match_string(old_file_lines, search, -1).max_similarity > 0
     /\ match_string(old_file_lines, search, -1).current_hits > 1
     /\ match_string(old_file_lines, search_context_before, -1).current_hits = 1
     /\ swr.exc = "None" /\ swr.status = "None") =>
        swr.replace_index >=
            match_string(old_file_lines, search_context_before, -1).index
                + Len(search_context_before)

\* the first marker of search and of replace stand at positions that are
\* neither both first, both last nor both interior
MarkersDisagree ==
    LET s == first_dots(search, 0)
        r == first_dots(replace, 0)
    IN /\ s # -1 /\ r # -1
       /\ ~ (s = 0 /\ r = 0)
       /\ ~ (s = M - 1 /\ r = Len(replace) - 1)
       /\ ~ (s > 0 /\ s < M - 1 /\ r > 0 /\ r < Len(replace) - 1)

\* C19: a hunk whose marker positions in search and replace disagree is not
\* split: it is matched as it is, marker lines included.
C19_DisagreeingMarkersMatchedAsIs ==
    (ppc = "done" /\ MarkersDisagree) =>
        swr = match_and_splice(old_file_lines, search, replace, search_context_before)

\* what the call made for the lines after the first markers returns
TrailingResult ==
    sliding_window_replacement(old_file_lines,
        PySlice(search, first_dots(search, 0) + 1, M),
        PySlice(replace, first_dots(replace, 0) + 1, Len(replace)),
        PySlice(search, 0, first_dots(search, 0)))

\* C20: when the sub-hunk after an interior marker fails, the status returned
\* for the whole hunk is a failure status.
C20_TrailingFailureKept ==
    (/\ ppc = "done"
     /\ DotCase(old_file_lines, search, replace) = "split"
     /\ first_dots(search, 0) > 0 /\ first_dots(search, 0) < M - 1
     /\ first_dots(replace, 0) > 0 /\ first_dots(replace, 0) < Len(replace) - 1
     /\ TrailingResult.exc = "None"
     /\ TrailingResult.status \in {IDENTICAL_LINES, NOT_FOUND, MULTIPLE_HITS}) =>
        /\ swr.exc = "None"
        /\ swr.status \in {IDENTICAL_LINES, NOT_FOUND, MULTIPLE_HITS}

\* the leading whitespace of a line
Indent(line) == SubSeq(line, 1, LeadingWs(line))

\* C14: when the first search line has no leading whitespace, every
\* replacement line is spliced in as the leading whitespace of the first
\* matched original line followed by the replacement line unmodified.
C14_OriginalIndentReused ==
    (/\ ppc = "done" /\ swr.exc = "None" /\ swr.status = "None"
     /\ NoMarker(search) /\ NoMarker(replace)
     /\ M >= 1 /\ LeadingWs(search[1]) = 0) =>
        \A k \in 1..Len(replace) :
            swr.original[swr.replace_index + k]
                = Indent(old_file_lines[swr.replace_index + 1]) \o replace[k]

\* search and replace both start with a marker line
LeadingMarkers ==
    /\ M >= 1 /\ Len(replace) >= 1
    /\ strip(search[1]) = Dots /\ strip(replace[1]) = Dots

\* the lines left after the leading markers are open to marker processing
\* again: both hold a further marker, or the search lines end with their
\* first marker and no replace line is left (then first_line_idx_replace = -1
\* equals len(replace) - 1 at line 233)
FurtherMarkers ==
    LET s == first_dots(Tail(search), 0)
        r == first_dots(Tail(replace), 0)
    IN \/ s # -1 /\ r # -1
       \/ s # -1 /\ s = Len(Tail(search)) - 1 /\ Tail(replace) = <<>>

\* C15 as stated: for every original, a hunk whose search and replace both
\* start with a marker line gives the same sequence, index and status as the
\* hunk without these two lines.
C15_LeadingMarkerEquivalent ==
    (ppc = "done" /\ LeadingMarkers) =>
        swr = sliding_window_replacement(old_file_lines, Tail(search), Tail(replace),
                                         search_context_before)

\* C15 as amended: when no line of the original contains three dots, the hunk
\* gives what matching the lines after the leading markers as they are gives;
\* this is what applying the hunk without the two marker lines gives, unless
\* the remaining lines are open to marker processing again.
C15_LeadingMarkerRemainderAsIs ==
    (ppc = "done" /\ LeadingMarkers /\ canDoDotCheck(old_file_lines)) =>
        /\ swr = match_and_splice(old_file_lines, Tail(search), Tail(replace),
                                  search_context_before)
        /\ ~ FurtherMarkers =>
              swr = sliding_window_replacement(old_file_lines, Tail(search),
                                               Tail(replace), search_context_before)

C15_Witness ==
    /\ ppc = "done" /\ LeadingMarkers /\ canDoDotCheck(old_file_lines)
    /\ ~ FurtherMarkers
    /\ N = 2 /\ M = 2
    /\ swr.status = "None" /\ swr.replace_index = 1
    /\ swr.original[1] = old_file_lines[1]
    /\ swr.original[2] # old_file_lines[2]

\* what processing the markers gives: the hunk without its two leading or its
\* two trailing marker lines, or the hunk as it is when search or replace
\* has no marker (the other hunks are split, which lines 236-242 define)
MarkersResult ==
    LET s == first_dots(search, 0)
        r == first_dots(replace, 0)
    IN IF s = 0 /\ r = 0
       THEN match_and_splice(old_file_lines, Tail(search), Tail(replace),
                             search_context_before)
       ELSE IF s = M - 1 /\ r = Len(replace) - 1
       THEN match_and_splice(old_file_lines, PySlice(search, 0, s),
                             PySlice(replace, 0, r), search_context_before)
       ELSE IF s = -1 \/ r = -1
       THEN match_and_splice(old_file_lines, search, replace, search_context_before)
       ELSE swr

\* some line of the original, trimmed, is the marker / contains three dots
SomeLineIsMarker == \E k \in 1..N : strip(old_file_lines[k]) = Dots
SomeLineHoldsDots == \E k \in 1..N : Contains(old_file_lines[k], Dots)

\* C18 as stated: the markers of a hunk are processed exactly when no line of
\* the original, trimmed, is the marker; a line that holds three dots inside
\* other text does not disable the processing.
C18_DisabledByMarkerLineOnly ==
    ppc = "done" =>
        IF SomeLineIsMarker
        THEN swr = match_and_splice(old_file_lines, search, replace,
                                    search_context_before)
        ELSE swr = MarkersResult

\* C18 as amended: the markers of a hunk are processed exactly when no line of
\* the original contains three dots anywhere; a line that holds three dots
\* inside other text disables the processing as a marker line does.
C18_DisabledByAnyDots ==
    ppc = "done" =>
        IF SomeLineHoldsDots
        THEN swr = match_and_splice(old_file_lines, search, replace,
                                    search_context_before)
        ELSE swr = MarkersResult

C18_Witness ==
    /\ ppc = "done"
    /\ SomeLineHoldsDots /\ ~ SomeLineIsMarker
    /\ LeadingMarkers
    /\ swr.status = "None"
    /\ swr # MarkersResult

\* the search lines of hunk n of the response
HunkSearch(n) == splitlines(matches[n].search)

\* window w of the lines is, line by line, the search lines of hunk n
HunkVerbatimAt(lines, n, w) ==
    /\ w + Len(HunkSearch(n)) <= Len(lines)
    /\ \A j \in 1..Len(HunkSearch(n)) : lines[w + j] = HunkSearch(n)[j]

\* no line of the lines, trimmed, is the trimmed search line of hunk n
\* anywhere but at window w
HunkOnlyAt(lines, n, w) ==
    \A v \in 0..(Len(lines) - 1) : \A j \in 1..Len(HunkSearch(n)) :
        (v + j <= Len(lines) /\ strip(lines[v + j]) = strip(HunkSearch(n)[j])) => v = w

\* C11: the hunks are applied strictly in their order of occurrence; each is
\* matched against the lines the hunks before it produced, scanning from
\* index 0: an iteration takes hunk hunk_idx + 1, applies it wherever its
\* search lines stand in the current lines, before or after the index of the
\* hunk before it, and hands the lines it produced to the next iteration.
C11_HunksInOrderFromZero ==
    [][(gpc = "loop" /\ hunk_idx' = hunk_idx + 1) =>
          /\ search' = HunkSearch(hunk_idx + 1)
          /\ replace' = splitlines(matches[hunk_idx + 1].replace)
          /\ old_file_lines' = swr'.original
          /\ \A w \in 0..(Len(old_file_lines) - 1) :
                (/\ HunkSearch(hunk_idx + 1) # <<>>
                 /\ HunkVerbatimAt(old_file_lines, hunk_idx + 1, w)
                 /\ HunkOnlyAt(old_file_lines, hunk_idx + 1, w)) =>
                    /\ swr'.status = "None"
                    /\ swr'.replace_index = w
                    /\ applied' = Append(applied, w)
                    /\ Len(old_file_lines') = Len(old_file_lines)
                          - Len(HunkSearch(hunk_idx + 1)) + Len(replace')
                    /\ \A n \in 1..w : old_file_lines'[n] = old_file_lines[n]
      ]_vars

\* the second hunk is applied at an index before the index of the first hunk
C11_Witness ==
    /\ gpc = "done" /\ result.exc = "None"
    /\ Len(matches) = 2 /\ hunk_idx = 2
    /\ applied = <<1, 0>>
    /\ swr.status = "None"
    /\ Len(old_file_content) = 2
    /\ result.text = <<matches[2].replace[1], matches[1].replace[1]>>
    /\ result.text[1] # old_file_content[1]
    /\ result.text[2] # old_file_content[2]

\* C13: when the content is empty or whitespace-only and the response holds
\* at least one hunk, the call returns exactly the replace text of the first
\* hunk, whatever its search text and the later hunks are.
C13_BlankReturnsFirstReplace ==
    (/\ gpc = "done"
     /\ \A n \in 1..Len(old_file_content) :
           \A c \in 1..Len(old_file_content[n]) : old_file_content[n][c] \in {" ", "\t"}
     /\ Len(matches) >= 1) =>
        /\ result = [exc |-> "None", text |-> matches[1].replace]
        /\ hunk_idx = 0

C13_Witness ==
    /\ gpc = "done"
    /\ old_file_content = << <<" ">>, <<>> >>
    /\ Len(matches) = 2
    /\ matches[1].replace # matches[2].replace
    /\ matches[1].search # old_file_content
    /\ result = [exc |-> "None", text |-> matches[1].replace]

\* C21: whenever sliding_window_replacement returns a failure status, the
\* line sequence it returns is the one it was called with, also when the hunk
\* was split and the part after the marker had been applied.
C21_FailureReturnsInput ==
    (ppc = "done" /\ swr.exc = "None" /\ Failed(swr.status)) =>
        swr.original = old_file_lines

\* the lines that are matched once the markers are processed (no split)
MatchedSearch ==
    LET dc == DotCase(old_file_lines, search, replace)
    IN IF dc = "first" THEN Tail(search)
       ELSE IF dc = "last" THEN PySlice(search, 0, first_dots(search, 0))
       ELSE search

\* C26: NOT_FOUND comes from the re-scan only: the first scan of the hunk was
\* ambiguous, its context was located at exactly one index c, and no start
\* index after c has a positive score; a hunk with one best window never ends
\* in NOT_FOUND, and on NOT_FOUND the lines are returned as they were.
C26_NotFoundFromRescanOnly ==
    (ppc = "done" /\ swr.exc = "None" /\ swr.status = NOT_FOUND) =>
        LET m == match_string(old_file_lines, MatchedSearch, -1)
            mc == match_string(old_file_lines, search_context_before, -1)
        IN /\ DotCase(old_file_lines, search, replace) # "split"
           /\ swr.original = old_file_lines
           /\ swr.replace_index = -1
           /\ m.max_similarity > 0
           /\ m.current_hits > 1
           /\ search_context_before # <<>>
           /\ mc.current_hits = 1
           /\ \A w \in (mc.index + 1)..(N - 1) : \A j \in 1..Len(MatchedSearch) :
                 w + j <= N => strip(MatchedSearch[j]) # strip(old_file_lines[w + j])

C26_Witness ==
    /\ ppc = "done" /\ swr.exc = "None" /\ swr.status = NOT_FOUND
    /\ N = 3 /\ M = 1
    /\ match_string(old_file_lines, search, -1).current_hits = 2
    /\ match_string(old_file_lines, search_context_before, -1).index = 2

\* the number of lines of window w of the original that equal, trimmed, the
\* search line they stand against
Score(w) ==
    Cardinality({j \in 1..M : w + j <= N /\ strip(search[j]) = strip(old_file_lines[w + j])})

MaxScore == CHOOSE v \in {Score(w) : w \in 0..(N - 1)} : \A w \in 0..(N - 1) : Score(w) <= v

\* C28: a scan without start offset that finds a positive score returns the
\* smallest start index with the maximum score, this score (the in-range
\* lines of a window that match), and the number of start indices in [0, N)
\* with this score.
C28_FirstBestWindowAndTies ==
    (ppc = "done" /\ match_string(old_file_lines, search, -1).max_similarity > 0) =>
        LET m == match_string(old_file_lines, search, -1)
        IN /\ m.max_similarity = 100 * MaxScore
           /\ Score(m.index) = MaxScore
           /\ \A w \in 0..(m.index - 1) : Score(w) < MaxScore
           /\ m.current_hits = Cardinality({w \in 0..(N - 1) : Score(w) = MaxScore})

\* two windows tie, the second one running past the end of the original
C28_Witness ==
    /\ ppc = "done" /\ N = 2 /\ M = 2
    /\ match_string(old_file_lines, search, -1)
          = [index |-> 0, max_similarity |-> 100, current_hits |-> 2]
    /\ Score(0) = 1 /\ Score(1) = 1

\* the number of marker lines
MarkerCount(lines) == Cardinality({k \in 1..Len(lines) : strip(lines[k]) = Dots})

\* C22: every nested call made for an interior marker gets strictly fewer
\* search lines than its caller, so the call ends, and the calls nest at most
\* as deep as search has marker lines.
C22_SplitCallsShrink ==
    ppc = "done" =>
        LET calls == split_calls(old_file_lines, search, replace)
        IN /\ Len(calls) <= MarkerCount(search)
           /\ \A k \in 1..Len(calls) :
                 Len(calls[k]) < Len(IF k = 1 THEN search ELSE calls[k - 1])
           /\ swr.status \in {"None", IDENTICAL_LINES, NOT_FOUND, MULTIPLE_HITS}
           /\ calls # <<>> =>
                 LET inner == sliding_window_replacement(old_file_lines, calls[1],
                                 PySlice(replace, first_dots(replace, 0) + 1, Len(replace)),
                                 PySlice(search, 0, first_dots(search, 0)))
                 IN swr = IF inner.exc # "None" THEN inner
                          ELSE match_and_splice(inner.original,
                                   PySlice(search, 0, first_dots(search, 0)),
                                   PySlice(replace, 0, first_dots(replace, 0)),
                                   PySlice(search, 0, first_dots(search, 0)))

\* a hunk of five lines with two markers whose calls nest two deep
C22_Witness ==
    /\ ppc = "done" /\ swr.exc = "None"
    /\ M = 5 /\ MarkerCount(search) = 2
    /\ Len(split_calls(old_file_lines, search, replace)) = 2
    /\ Len(split_calls(old_file_lines, search, replace)[2]) = 1

\* the number of leading space characters of a line
RECURSIVE SpaceRun(_)
SpaceRun(line) ==
    IF line # <<>> /\ Head(line) = " " THEN 1 + SpaceRun(Tail(line)) ELSE 0

\* the smallest leading-whitespace width of the search lines
MinIndent ==
    CHOOSE w \in 0..8 :
        /\ \E k \in 1..M : LeadingWs(search[k]) = w
        /\ \A k \in 1..M : LeadingWs(search[k]) >= w

\* C27: when the first search line has leading whitespace, every replacement
\* line is spliced in with at most w leading spaces removed and w spaces put
\* in front, w being the smallest leading-whitespace width of the search
\* lines; a replacement line with at least w leading spaces is spliced in
\* unchanged.
C27_IndentedSearchPrefix ==
    (/\ ppc = "done" /\ swr.exc = "None" /\ swr.status = "None"
     /\ NoMarker(search) /\ NoMarker(replace)
     /\ M >= 1 /\ LeadingWs(search[1]) > 0) =>
        \A k \in 1..Len(replace) :
            LET line == replace[k]
                removed == Min(MinIndent, SpaceRun(line))
                spliced == swr.original[swr.replace_index + k]
            IN /\ spliced = Spaces(MinIndent) \o SubSeq(line, removed + 1, Len(line))
               /\ SpaceRun(line) >= MinIndent => spliced = line

\* w = 1: "  c" is spliced in unchanged, "c" gets one space
C27_Witness ==
    /\ ppc = "done" /\ swr.exc = "None" /\ swr.status = "None"
    /\ M = 2 /\ LeadingWs(search[1]) = 2 /\ MinIndent = 1
    /\ replace = <<LIIC, LC>>
    /\ swr.original[swr.replace_index + 1] = LIIC
    /\ swr.original[swr.replace_index + 2] = LIC

RaisedOutcomes == {"Exception", "MaxTokensExceeded", "IndexError", "ValueError"}

\* C23: the sizes are tried in the order 800, 600, 400; a smaller size is
\* tried only after the attempt at the size before it raised, none after an
\* attempt completed, and at most three attempts are made.
C23_SizesInOrderUntilCompleted ==
    /\ Len(attempts) <= 3
    /\ \A k \in 1..Len(attempts) :
          /\ attempts[k].size = <<800, 600, 400>>[k]
          /\ k < Len(attempts) => attempts[k].outcome \in RaisedOutcomes
          /\ attempts[k].outcome = "completed" => k = Len(attempts)
    /\ (attempts # <<>> /\ pc \in {"compare", "update", "update_again", "done"}) =>
          LastAttempt.outcome # "running"
    /\ (attempts # <<>> /\ pc \in {"compare", "update", "update_again", "done"}
          /\ LastAttempt.outcome \in RaisedOutcomes) => Len(attempts) = 3

C23_Witness ==
    /\ pc = "done"
    /\ Len(attempts) = 3
    /\ attempts[1].outcome \in RaisedOutcomes
    /\ attempts[2].outcome \in RaisedOutcomes
    /\ attempts[3] = [size |-> 400, chunking |-> TRUE, outcome |-> "completed"]

\* the pieces of the accumulated output that the attempt at size C appended
PiecesOf(C) == SelectSeq(new_file_contents, LAMBDA p : p.size = C)

\* C24: in a chunked attempt at size C the chunks are the line ranges
\* [i, i + C) for i = 0, C, 2C, ... in increasing order and cover all lines
\* once the attempt completed; a chunk should_edit rejects is appended
\* unchanged without a proposal request; a newline follows every chunk but
\* the last; so when the first attempt passes every chunk through unchanged,
\* the accumulated output equals the file content and nothing is written.
C24_ChunkRangesAndJoin ==
    /\ \A a \in 1..Len(attempts) :
          attempts[a].chunking =>
             LET C == attempts[a].size
                 ps == PiecesOf(C)
             IN /\ \A k \in 1..Len(ps) :
                      /\ ps[k].lo = (k - 1) * C
                      /\ ps[k].hi = Min(k * C, num_lines)
                      /\ ps[k].lo < ps[k].hi
                      /\ ps[k].sep = (k * C < num_lines)
                      /\ ps[k].kind = "orig" => PieceIsOriginal(ps[k]) /\ ~ ps[k].failed
                /\ attempts[a].outcome = "completed" =>
                      ps # <<>> /\ ps[Len(ps)].hi = num_lines
    /\ proposal_requests =
          Cardinality({k \in 1..Len(new_file_contents) : new_file_contents[k].kind # "orig"})
          + Cardinality({a \in 1..Len(attempts) : attempts[a].outcome \in RaisedOutcomes})
    /\ (/\ Len(attempts) = 1 /\ attempts[1].chunking /\ attempts[1].outcome = "completed"
        /\ \A k \in 1..Len(new_file_contents) : new_file_contents[k].kind = "orig") =>
          /\ SameAsFile(new_file_contents)
          /\ proposal_requests = 0
          /\ update_calls = <<>>
          /\ pc \in {"compare", "done"}
          /\ pc = "done" => ret = "False"

\* a 1201-line file passed through unchanged in two chunks at size 800
C24_Witness ==
    /\ pc = "done" /\ ret = "False" /\ update_calls = <<>>
    /\ num_lines = 1201 /\ proposal_requests = 0
    /\ Len(attempts) = 1 /\ attempts[1].outcome = "completed"
    /\ new_file_contents = <<Piece(800, 0, 800, "orig", FALSE, TRUE),
                            Piece(800, 800, 1201, "orig", FALSE, FALSE)>>

\* C25 as stated: chunking is decided by comparing the line count with 1.5
\* times the first candidate size: a file of at most 1200 lines is edited as
\* a whole at every size, a longer file is chunked at every size.
C25_ThresholdOfFirstSize ==
    \A a \in 1..Len(attempts) : attempts[a].chunking = (num_lines > 1200)

\* C25 as amended: chunking is decided anew for every candidate size C by
\* comparing the line count with 1.5 times C: the attempt at size C is
\* chunked exactly when the file has more than 1.5 * C lines (1200, 900 and
\* 600 lines for the sizes 800, 600 and 400).
C25_ThresholdOfEachSize ==
    \A a \in 1..Len(attempts) :
        /\ attempts[a].chunking = (2 * num_lines > 3 * attempts[a].size)
        /\ attempts[a].chunking = (num_lines > <<1200, 900, 600>>[a])

\* a 1000-line file is edited as a whole at size 800 and in chunks at 600
C25_Witness ==
    /\ num_lines = 1000 /\ Len(attempts) = 2
    /\ attempts[1] = [size |-> 800, chunking |-> FALSE, outcome |-> "Exception"]
    /\ attempts[2].size = 600 /\ attempts[2].chunking
    /\ attempts[2].outcome = "completed"
    /\ Len(new_file_contents) = 2

\* C29: a copy-lines reference a-b resolved with chunk offset c > 0 is
\* replaced by the chunk lines at the 0-based indices max(0, a-1-c) through
\* min(len-1, b-1-c), and by no line when this range is empty.
C29_CopyLinesRange ==
    (cpc = "done" /\ chunk_offset > 0) =>
        LET lo == Max(0, copy_start - 1 - chunk_offset)
            hi == Min(Len(old_file_lines) - 1, copy_end - 1 - chunk_offset)
        IN /\ Len(replacements) = (IF hi >= lo THEN hi - lo + 1 ELSE 0)
           /\ \A k \in 1..Len(replacements) : replacements[k] = old_file_lines[lo + k]

\* the lines format_contents looks at
StartsFence(line) == startswith(strip(line), Fence)
EndsFence(line) == endswith(strip(line), Fence)
HasTag(line) == Contains(line, UserCodeTag)

\* C30: of a non-markdown text of more than 5 lines format_contents removes
\* only a prefix of the first three and a suffix of the last three lines, and
\* nothing when no first-three line starts with a fence or holds the tag and
\* no last-three line ends with a fence or holds the tag; a markdown text is
\* returned as it is.
C30_OnlyEdgesRemoved ==
    fpc = "done" =>
        LET n == Len(file_contents)
        IN /\ markdown => formatted = file_contents
           /\ (~ markdown /\ n > 5) =>
                 /\ \E p \in 0..3 : \E q \in 0..3 :
                       formatted = join(SubSeq(file_contents, p + 1, n - q))
                 /\ (/\ \A k \in 1..3 : ~ StartsFence(file_contents[k])
                                         /\ ~ HasTag(file_contents[k])
                     /\ \A k \in (n - 2)..n : ~ EndsFence(file_contents[k])
                                               /\ ~ HasTag(file_contents[k])) =>
                       formatted = file_contents

\* seven lines: the opening fence and the closing fence go, the five lines
\* between them stay, a fence among them included
C30_Witness ==
    /\ fpc = "done" /\ ~ markdown
    /\ Len(file_contents) = 7
    /\ file_contents[1] = LFenceA /\ file_contents[7] = Fence
    /\ file_contents[4] = Fence
    /\ formatted = SubSeq(file_contents, 2, 6)

\* a line that neither starts nor ends with a code fence
PlainLine(line) == ~ StartsFence(line) /\ ~ EndsFence(line)

\* the lines of sub occur in seq in the same order
RECURSIVE IsSubsequence(_, _)
IsSubsequence(sub, seq) ==
    IF sub = <<>> THEN TRUE
    ELSE IF seq = <<>> THEN FALSE
    ELSE IF Head(sub) = Head(seq) THEN IsSubsequence(Tail(sub), Tail(seq))
    ELSE IsSubsequence(sub, Tail(seq))

\* C31: of a non-markdown text of at most 5 lines format_contents removes
\* only code-fence lines: the input lines that neither start nor end with a
\* code fence all appear in the output, in the order of the input.
C31_SmallFileKeepsPlainLines ==
    (fpc = "done" /\ ~ markdown /\ Len(file_contents) <= 5) =>
        IsSubsequence(SelectSeq(file_contents, PlainLine), formatted)

\* the number of lines of the window at index w that equal the search line
\* after trimming
TrimmedEqual(w) ==
    Cardinality({k \in 0..(Len(search) - 1) :
        /\ w + k < Len(old_file_lines)
        /\ strip(search[k + 1]) = strip(old_file_lines[w + k + 1])})

\* C32: in a scan with a start index the window that match_string returns
\* has the largest number of trimmed-equal lines among the windows scanned:
\* the 0.01 bonus of exact lines never lets a window with fewer trimmed-equal
\* lines outscore one with more.
C32_BonusKeepsPrimaryRanking ==
    (mpc = "done" /\ from_index # -1 /\ matched.index # -1) =>
        \A w \in from_index..(Len(old_file_lines) - 1) :
            TrimmedEqual(w) <= TrimmedEqual(matched.index)

====
